---- MODULE Spec2Model ----
(***************************************************************************)
(* MoodMate mood journal: the journal store kept in localStorage, and the  *)
(* pages that read and write it (home, trends, settings).                  *)
(*                                                                         *)
(* Each page runs in its own tab.  A handler runs without interruption up  *)
(* to its next await; at an await the other tabs may take steps.  A page   *)
(* handles no further event of its own while one of its handlers is        *)
(* suspended at an await on the (synchronous) store.                       *)
(*                                                                         *)
(* Strings that the code takes apart (the note) are sequences of tokens;   *)
(* a token is one character, or a word of the default-note template.       *)
(* Times are integers relative to the moment the first tab opened.         *)
(*                                                                         *)
(* The functions that take an entry list (the time-range filter, the mood  *)
(* statistics, the weather correlation, the export) are operators; a call  *)
(* of one is a step that records its arguments and what it returned.       *)
(***************************************************************************)
EXTENDS Integers, Sequences, FiniteSets, Bags, TLC

(* ------------------------------ bounds --------------------------------- *)

\* Date.now() advances at most this far.
MaxClock == 1
\* Length of a day in clock units (86400000 in the source, scaled so that
\* forty days fit TLC's 32-bit integers).
msInDay == 3
\* Handler runs that may change the persisted value: saves from the home
\* page, "Add Samples" runs and confirmed deletions, taken together.
MaxOps == 2
\* addSampleEntries saves the first MaxSamples entries of its list of six.
MaxSamples == 2
\* Longest entry list handed to filterEntriesByTimeRange.
MaxFilterLen == 3
\* Longest entry list handed to the mood statistics and the weather
\* correlation.
MaxAnalyticsLen == 3
\* Longest entry list persisted before an export.
MaxExportLen == 2
\* Downloads started by one page, or by the calls of exportJournalEntries.
MaxExports == 2
\* Longest entry list exported as CSV.
MaxCsvLen == 2

(* ----------------------------- constants ------------------------------- *)

\* NoteInput's default maxLength.
maxLength == 200

Moods == <<"happy", "neutral", "sad", "angry", "sick">>

MoodSet == {Moods[i] : i \in 1..Len(Moods)}

\* Characters String.prototype.trim removes.
WhiteSpace == {" ", "\n"}

\* selectedMood = null, weather = null, and "no entry yet".
NullMood == "null"

NullWeather == [temp |-> 0, condition |-> "null", icon |-> "null", location |-> "null"]

getFallbackWeather == [temp |-> 22, condition |-> "Clear", icon |-> "01d", location |-> "New York"]

\* What the weather API may answer for the device's location.
ApiWeather == [temp |-> 18, condition |-> "Rain", icon |-> "10d", location |-> "Pune"]

\* Outcomes of getWeatherData: the API's answer, or the fallback on any failure.
WeatherResults == {ApiWeather, getFallbackWeather}

\* Values the user may type into the note box.
LongNote == <<"x201">>

NoteInputs == {<<>>, <<" ">>, <<" ", "a", "\n">>, LongNote}

\* Values at and around the note box's limit.
NoteEdits == {<<"a">>, <<"x200">>, <<"x200", "a">>, <<"x200", " ">>, LongNote}

\* Midnights the calendar offers, relative to the first tab's opening.
CalendarDates == {0 - msInDay, 0}

(* ------------------------- strings and dates --------------------------- *)

\* Number of characters of a token.
TokLen(t) ==
    IF t = "x201" THEN 201
    ELSE IF t = "x200" THEN 200
    ELSE IF t = "Feeling" THEN 7
    ELSE IF t = "today" THEN 5
    ELSE IF t = "happy" THEN 5
    ELSE IF t = "neutral" THEN 7
    ELSE IF t = "sad" THEN 3
    ELSE IF t = "angry" THEN 5
    ELSE IF t = "sick" THEN 4
    ELSE IF t \in {"Feeling great today!", "Just an ordinary day",
                   "Frustrated with work", "Had a great weekend!"} THEN 20
    ELSE IF t = "Not feeling my best" THEN 19
    ELSE IF t = "Caught a cold" THEN 13
    ELSE 1

RECURSIVE StrLen(_)
StrLen(s) == IF s = <<>> THEN 0 ELSE TokLen(Head(s)) + StrLen(Tail(s))

RECURSIVE TrimStart(_)
TrimStart(s) ==
    IF s = <<>> THEN s
    ELSE IF Head(s) \in WhiteSpace THEN TrimStart(Tail(s))
    ELSE s

RECURSIVE TrimEnd(_)
TrimEnd(s) ==
    IF s = <<>> THEN s
    ELSE IF s[Len(s)] \in WhiteSpace THEN TrimEnd(SubSeq(s, 1, Len(s) - 1))
    ELSE s

\* trim removing leading white space only.
trimStartOnly(s) == TrimStart(s)

\* String.prototype.trim
trim(s) == TrimEnd(TrimStart(s))

\* `Feeling ${selectedMood} today`
DefaultNote(m) == <<"Feeling", " ", m, " ", "today">>

\* a || b on strings: the empty string is falsy.
OrElse(a, b) == IF a = <<>> THEN b ELSE a

\* dateFormat(date, "MMMM d, yyyy"): the label of the calendar day of date.
dateFormat(d) == [day |-> d \div msInDay]

\* Date.now().toString()
toString(n) == ToString(n)

(* ------------------------------ entries -------------------------------- *)

NoEntry ==
    [id |-> "", date |-> [day |-> 0], mood |-> NullMood, note |-> <<>>,
     weather |-> NullWeather, timestamp |-> 0]

InSeq(e, s) == \E i \in 1..Len(s) : s[i] = e

\* The entries of s as a bag.
RECURSIVE BagOf(_)
BagOf(s) == IF s = <<>> THEN EmptyBag ELSE BagOf(Tail(s)) (+) SetToBag({Head(s)})

\* InsertDesc placing x ahead of the elements of its timestamp.
RECURSIVE InsertDescAhead(_, _)
InsertDescAhead(x, s) ==
    IF s = <<>> THEN <<x>>
    ELSE IF Head(s).timestamp > x.timestamp THEN <<Head(s)>> \o InsertDescAhead(x, Tail(s))
    ELSE <<x>> \o s

\* Place x behind every element that the comparator b.timestamp - a.timestamp
\* does not put after it.
RECURSIVE InsertDesc(_, _)
InsertDesc(x, s) ==
    IF s = <<>> THEN <<x>>
    ELSE IF Head(s).timestamp >= x.timestamp THEN <<Head(s)>> \o InsertDesc(x, Tail(s))
    ELSE <<x>> \o s

RECURSIVE SortFrom(_, _)
SortFrom(done, rest) ==
    IF rest = <<>> THEN done ELSE SortFrom(InsertDesc(Head(rest), done), Tail(rest))

\* entries.sort((a, b) => b.timestamp - a.timestamp), a stable sort.
SortDesc(s) == SortFrom(<<>>, s)

IsSortedDesc(s) == \A i \in 1..(Len(s) - 1) : s[i].timestamp >= s[i + 1].timestamp

(* --------------------------- the journal store ------------------------- *)

Absent == [kind |-> "absent", entries |-> <<>>]

\* The persisted text is not JSON.
Invalid == [kind |-> "invalid", entries |-> <<>>]

\* The persisted text is JSON but not an array (sort is not a function).
NotArray == [kind |-> "notArray", entries |-> <<>>]

Stored(s) == [kind |-> "list", entries |-> s]

\* ParseAndSort without the sort: the list in its persisted order.
ParseUnsorted(st) ==
    IF st.kind = "absent" THEN [threw |-> FALSE, value |-> <<>>]
    ELSE IF st.kind = "list" THEN [threw |-> FALSE, value |-> st.entries]
    ELSE [threw |-> TRUE, value |-> <<>>]

\* The body of getJournalEntries' try block.
ParseAndSort(st) ==
    IF st.kind = "absent" THEN [threw |-> FALSE, value |-> <<>>]
    ELSE IF st.kind = "list" THEN [threw |-> FALSE, value |-> SortDesc(st.entries)]
    ELSE [threw |-> TRUE, value |-> <<>>]

\* getJournalEntries without its catch block.
getJournalEntriesRethrows(st) == ParseAndSort(st)

getJournalEntries(st) ==
    LET r == ParseAndSort(st)
    IN  IF r.threw THEN [threw |-> FALSE, value |-> <<>>] ELSE r

\* The entry saveJournalEntry builds from its argument at clock value t.
NewEntry(entryData, t) ==
    [id |-> toString(t),
     date |-> dateFormat(entryData.date),
     mood |-> entryData.mood,
     note |-> entryData.note,
     weather |-> entryData.weather,
     timestamp |-> entryData.date]

\* updatedEntries without the new entry.
updatedEntriesWithoutNew(newEntry, existingEntries) == existingEntries

\* [newEntry, ...existingEntries]
updatedEntries(newEntry, existingEntries) == <<newEntry>> \o existingEntries

\* addSampleEntries' list, built at clock value t.
allSampleEntries(t) ==
    << [date |-> t, mood |-> "happy", note |-> <<"Feeling great today!">>,
        weather |-> [temp |-> 25, condition |-> "Clear", icon |-> "01d", location |-> "Sample City"]],
       [date |-> t - 2 * msInDay, mood |-> "neutral", note |-> <<"Just an ordinary day">>,
        weather |-> [temp |-> 22, condition |-> "Clouds", icon |-> "02d", location |-> "Sample City"]],
       [date |-> t - 5 * msInDay, mood |-> "sad", note |-> <<"Not feeling my best">>,
        weather |-> [temp |-> 18, condition |-> "Rain", icon |-> "10d", location |-> "Sample City"]],
       [date |-> t - 10 * msInDay, mood |-> "angry", note |-> <<"Frustrated with work">>,
        weather |-> [temp |-> 27, condition |-> "Clear", icon |-> "01d", location |-> "Sample City"]],
       [date |-> t - 20 * msInDay, mood |-> "happy", note |-> <<"Had a great weekend!">>,
        weather |-> [temp |-> 24, condition |-> "Clouds", icon |-> "02d", location |-> "Sample City"]],
       [date |-> t - 40 * msInDay, mood |-> "sick", note |-> <<"Caught a cold">>,
        weather |-> [temp |-> 15, condition |-> "Rain", icon |-> "10d", location |-> "Sample City"]] >>

sampleEntries(t) == SubSeq(allSampleEntries(t), 1, MaxSamples)

(* ------------------------------- filter -------------------------------- *)

\* type TimeRange
TimeRanges == {"week", "month", "all"}

\* now - 7 * msInDay, now - 30 * msInDay; no cutoff for "all".
cutoffTime(range, t) == IF range = "week" THEN t - 7 * msInDay ELSE t - 30 * msInDay

\* entries.filter((entry) => entry.timestamp > cutoffTime)
RECURSIVE filterAfter(_, _)
filterAfter(entries, cutoff) ==
    IF entries = <<>> THEN <<>>
    ELSE IF Head(entries).timestamp > cutoff
         THEN <<Head(entries)>> \o filterAfter(Tail(entries), cutoff)
         ELSE filterAfter(Tail(entries), cutoff)

\* entries.filter((entry) => entry.timestamp >= cutoffTime)
RECURSIVE filter(_, _)
filter(entries, cutoff) ==
    IF entries = <<>> THEN <<>>
    ELSE IF Head(entries).timestamp >= cutoff
         THEN <<Head(entries)>> \o filter(Tail(entries), cutoff)
         ELSE filter(Tail(entries), cutoff)

\* filterEntriesByTimeRange with the week and month cutoffs exchanged.
filterEntriesSwapped(entries, range, t) ==
    IF range = "week" THEN filter(entries, cutoffTime("month", t))
    ELSE IF range = "month" THEN filter(entries, cutoffTime("week", t))
    ELSE entries

\* filterEntriesByTimeRange handing back its result sorted by timestamp.
filterEntriesSorted(entries, range, t) ==
    IF range \in {"week", "month"} THEN SortDesc(filter(entries, cutoffTime(range, t)))
    ELSE entries

\* filterEntriesByTimeRange called with Date.now() = t.
filterEntriesByTimeRange(entries, range, t) ==
    IF range = "all" THEN entries
    ELSE IF range \in {"week", "month"} THEN filter(entries, cutoffTime(range, t))
    ELSE entries

(* ------------------------------- export -------------------------------- *)

\* type ExportFormat
ExportFormats == {"csv", "json"}

\* "Date,Mood,Note,Temperature,Weather Condition,Location\n", as text: a
\* text is a sequence of tokens, each a double quote, a comma, a line break
\* or a piece of text without any of these.
headers ==
    <<"Date", ",", "Mood", ",", "Note", ",", "Temperature", ",",
      "Weather Condition", ",", "Location", "\n">>

\* A place name that holds double quotes.
QuotedName == "Sovkhoz \"Pobeda\""

\* The characters of a string that the model holds in one piece.
chars(str) ==
    IF str = QuotedName THEN <<"Sovkhoz ", "\"", "Pobeda", "\"">> ELSE <<str>>

\* The characters of a formatted date ("MMMM d, yyyy"): month and day, a
\* comma, the year.
dateChars(date) == <<ToString(date.day), ",", " yyyy">>

\* note.replace(/"/g, '""'): every double quote twice.
RECURSIVE doubleQuotes(_)
doubleQuotes(note) ==
    IF note = <<>> THEN <<>>
    ELSE IF Head(note) = "\"" THEN <<"\"", "\"">> \o doubleQuotes(Tail(note))
    ELSE <<Head(note)>> \o doubleQuotes(Tail(note))

\* A cell between double quotes.
quoted(cell) == <<"\"">> \o cell \o <<"\"">>

\* The template literal of one CSV row.
csvRow(entry) ==
    quoted(dateChars(entry.date)) \o <<",">>
    \o quoted(<<entry.mood>>) \o <<",">>
    \o quoted(doubleQuotes(entry.note)) \o <<",">>
    \o quoted(<<ToString(entry.weather.temp), "°C">>) \o <<",">>
    \o quoted(chars(entry.weather.condition)) \o <<",">>
    \o quoted(chars(IF entry.weather.location = "" THEN "Unknown" ELSE entry.weather.location))

\* csvRows.join(sep) with every row dropped but the first.
joinFirst(rows, sep) == IF rows = <<>> THEN <<>> ELSE Head(rows)

\* csvRows.join(sep)
RECURSIVE join(_, _)
join(rows, sep) ==
    IF rows = <<>> THEN <<>>
    ELSE IF Len(rows) = 1 THEN Head(rows)
    ELSE Head(rows) \o <<sep>> \o join(Tail(rows), sep)

\* The text, name and type of the file for a non-empty list, at clock value t.
exportFile(entries, format, t) ==
    IF format = "csv"
    THEN [dataStr |-> headers \o join([i \in 1..Len(entries) |-> csvRow(entries[i])], "\n"),
          fileName |-> <<"moodmate-journal-", dateFormat(t), ".csv">>,
          mimeType |-> "text/csv"]
    ELSE [dataStr |-> entries,
          fileName |-> <<"moodmate-journal-", dateFormat(t), ".json">>,
          mimeType |-> "application/json"]

\* exportJournalEntries going on with an empty list.
exportJournalEntriesOfAny(entries, format, t, ok) ==
    IF ~ok THEN [threw |-> TRUE, fileName |-> <<>>, downloads |-> <<>>]
    ELSE [threw |-> FALSE,
          fileName |-> exportFile(entries, format, t).fileName,
          downloads |-> <<exportFile(entries, format, t)>>]

\* exportJournalEntries called at clock value t; ok: creating the Blob and
\* the link does not throw.  What it returns or that it threw, and the
\* downloads it started.
exportJournalEntries(entries, format, t, ok) ==
    IF Len(entries) = 0 THEN [threw |-> TRUE, fileName |-> <<>>, downloads |-> <<>>]
    ELSE IF ~ok THEN [threw |-> TRUE, fileName |-> <<>>, downloads |-> <<>>]
    ELSE [threw |-> FALSE,
          fileName |-> exportFile(entries, format, t).fileName,
          downloads |-> <<exportFile(entries, format, t)>>]

\* handleExport's work on the list it has read: whether it calls
\* exportJournalEntries, the title of its toast, the downloads started.
exportOutcome(entries, format, t, ok) ==
    IF Len(entries) = 0
    THEN [called |-> FALSE, toast |-> "No entries to export", downloads |-> <<>>]
    ELSE LET r == exportJournalEntries(entries, format, t, ok)
         IN  IF r.threw THEN [called |-> TRUE, toast |-> "Export failed", downloads |-> <<>>]
             ELSE [called |-> TRUE, toast |-> "Export successful", downloads |-> r.downloads]

(* ------------------------------ analytics ------------------------------ *)

\* How many entries of the list have mood m.
moodCount(entries, m) == Cardinality({i \in 1..Len(entries) : entries[i].mood = m})

\* const allMoods: Mood[]
allMoods == <<"happy", "neutral", "sad", "angry", "sick">>

\* (count / totalEntries) * 100, or 0 for no entries, kept as a fraction.
percentageOf(count, totalEntries) ==
    IF totalEntries > 0 THEN [num |-> count * 100, den |-> totalEntries]
    ELSE [num |-> 0, den |-> 1]

\* The sign of b.percentage - a.percentage is positive.
percentageLess(a, b) == a.percentage.num * b.percentage.den < b.percentage.num * a.percentage.den

\* InsertByPercentage placing x ahead of the rows of equal percentage.
RECURSIVE InsertByPercentageAhead(_, _)
InsertByPercentageAhead(x, s) ==
    IF s = <<>> THEN <<x>>
    ELSE IF percentageLess(x, Head(s)) THEN <<Head(s)>> \o InsertByPercentageAhead(x, Tail(s))
    ELSE <<x>> \o s

\* Place x behind every row that the comparator b.percentage - a.percentage
\* does not put after it.
RECURSIVE InsertByPercentage(_, _)
InsertByPercentage(x, s) ==
    IF s = <<>> THEN <<x>>
    ELSE IF ~percentageLess(Head(s), x) THEN <<Head(s)>> \o InsertByPercentage(x, Tail(s))
    ELSE <<x>> \o s

RECURSIVE SortByPercentageFrom(_, _)
SortByPercentageFrom(done, rest) ==
    IF rest = <<>> THEN done
    ELSE SortByPercentageFrom(InsertByPercentage(Head(rest), done), Tail(rest))

\* The row of one mood: mood, count, percentage (label, emoji and colour
\* class are functions of the mood alone).
moodRow(entries, mood) ==
    [mood |-> mood,
     count |-> moodCount(entries, mood),
     percentage |-> percentageOf(moodCount(entries, mood), Len(entries))]

\* moodStats with rows for the moods that occur only.
moodStatsOfPresent(entries) ==
    SortByPercentageFrom(<<>>,
        SelectSeq([i \in 1..Len(allMoods) |-> moodRow(entries, allMoods[i])],
                  LAMBDA row : row.count > 0))

\* MoodTrends.moodStats: allMoods.map(...).sort((a, b) => b.percentage - a.percentage)
moodStats(entries) ==
    SortByPercentageFrom(<<>>, [i \in 1..Len(allMoods) |-> moodRow(entries, allMoods[i])])

\* The keys of weatherGroups in the order in which forEach created them.
RECURSIVE conditionsFrom(_, _)
conditionsFrom(seen, entries) ==
    IF entries = <<>> THEN seen
    ELSE IF \E i \in 1..Len(seen) : seen[i] = Head(entries).weather.condition
         THEN conditionsFrom(seen, Tail(entries))
         ELSE conditionsFrom(Append(seen, Head(entries).weather.condition), Tail(entries))

\* weatherGroups[condition] holding every entry.
conditionEntriesAll(entries, condition) == entries

\* weatherGroups[condition]
conditionEntries(entries, condition) ==
    SelectSeq(entries, LAMBDA entry : entry.weather.condition = condition)

\* findDominant with >= for >: the last mood of the highest count.
RECURSIVE findDominantLast(_, _, _, _)
findDominantLast(group, i, dominantMood, highestCount) ==
    IF i > Len(allMoods) THEN [dominantMood |-> dominantMood, highestCount |-> highestCount]
    ELSE IF moodCount(group, allMoods[i]) >= highestCount
         THEN findDominantLast(group, i + 1, allMoods[i], moodCount(group, allMoods[i]))
         ELSE findDominantLast(group, i + 1, dominantMood, highestCount)

\* Object.entries(moodCounts).forEach from the i-th mood on: a count above
\* highestCount replaces the dominant mood.
RECURSIVE findDominant(_, _, _, _)
findDominant(group, i, dominantMood, highestCount) ==
    IF i > Len(allMoods) THEN [dominantMood |-> dominantMood, highestCount |-> highestCount]
    ELSE IF moodCount(group, allMoods[i]) > highestCount
         THEN findDominant(group, i + 1, allMoods[i], moodCount(group, allMoods[i]))
         ELSE findDominant(group, i + 1, dominantMood, highestCount)

\* num / den cut off at the integer below.
MathFloor(num, den) == num \div den

\* Math.round(num / den) for den > 0: the nearest integer, halves upwards.
MathRound(num, den) == (2 * num + den) \div (2 * den)

RECURSIVE sumTemp(_)
sumTemp(group) == IF group = <<>> THEN 0 ELSE Head(group).weather.temp + sumTemp(Tail(group))

\* The record that correlation's map builds for one condition.
correlationRow(entries, condition) ==
    LET group == conditionEntries(entries, condition)
        dominant == findDominant(group, 1, "neutral", 0)
    IN  [condition |-> condition,
         totalEntries |-> Len(group),
         dominantMood |-> dominant.dominantMood,
         dominantPercentage |-> MathRound(dominant.highestCount * 100, Len(group)),
         averageTemp |-> MathRound(sumTemp(group), Len(group))]

\* Place x behind every row that the comparator b.totalEntries -
\* a.totalEntries does not put after it.
RECURSIVE InsertByTotal(_, _)
InsertByTotal(x, s) ==
    IF s = <<>> THEN <<x>>
    ELSE IF Head(s).totalEntries >= x.totalEntries THEN <<Head(s)>> \o InsertByTotal(x, Tail(s))
    ELSE <<x>> \o s

RECURSIVE SortByTotalFrom(_, _)
SortByTotalFrom(done, rest) ==
    IF rest = <<>> THEN done ELSE SortByTotalFrom(InsertByTotal(Head(rest), done), Tail(rest))

\* correlation without its sort: the groups in the order of their keys.
correlationUnsorted(entries) ==
    LET conditions == conditionsFrom(<<>>, entries)
    IN  [i \in 1..Len(conditions) |-> correlationRow(entries, conditions[i])]

\* WeatherCorrelation.correlation:
\* Object.entries(weatherGroups).map(...).sort((a, b) => b.totalEntries - a.totalEntries)
correlation(entries) ==
    LET conditions == conditionsFrom(<<>>, entries)
    IN  SortByTotalFrom(<<>>, [i \in 1..Len(conditions) |-> correlationRow(entries, conditions[i])])

(* --------------------------- weather service --------------------------- *)

\* Coordinates in ten-thousandths of a degree: New York City.
getDefaultLocation == [latitude |-> 407128, longitude |-> 0 - 740060]

\* position.coords when the device answers.
DevicePosition == [latitude |-> 185204, longitude |-> 738567]

\* getCurrentPosition calls its success callback, or its error callback
\* (permission denied, no position within the 5000 ms timeout).
GeolocationOutcomes == {"success", "denied", "timeout"}

\* What getCurrentLocation resolves; "unsupported" when navigator.geolocation
\* is missing.
getCurrentLocation(outcome) ==
    IF outcome = "success" THEN DevicePosition ELSE getDefaultLocation

\* The request's query: lat and lon, or q.
ByCoordinates(location) ==
    [by |-> "lat,lon", latitude |-> location.latitude,
     longitude |-> location.longitude, q |-> <<>>]

ByCity(city) == [by |-> "q", latitude |-> 0, longitude |-> 0, q |-> city]

\* How fetch settles: it rejects (network error, or the abort of the
\* 5000 ms timer), or resolves a response whose ok is true or false.
FetchOutcomes == {"network error", "abort", "ok", "not ok"}

\* City names the user may type: none, blank, a city, an unknown one.
CityInputs == {<<>>, <<" ">>, <<" ", "Pune">>, <<"Qqq">>}

\* The place the API names for a query.
nameOf(query) ==
    IF query.by = "q" THEN toString(trim(query.q))
    ELSE IF query.latitude = getDefaultLocation.latitude THEN "New York"
    ELSE "Pune"

\* A body of the documented shape: main.temp in tenths of a degree, the
\* conditions list, the place name.
Data(temp, conditions, name) ==
    [json |-> TRUE, main |-> TRUE, temp |-> temp, weather |-> conditions,
     name |-> name]

\* Bodies of a response with ok = true: the documented shape, with
\* temperatures that round up, down and to zero; and malformed ones: not JSON,
\* JSON without main, JSON whose conditions list is empty.
Bodies(query) ==
    {Data(175, <<[main |-> "Rain", icon |-> "10d"]>>, nameOf(query)),
     Data(224, <<[main |-> "Clouds", icon |-> "04d"],
                 [main |-> "Rain", icon |-> "10d"]>>, nameOf(query)),
     Data(0 - 5, <<[main |-> "Snow", icon |-> "13d"]>>, nameOf(query)),
     [Data(0, <<>>, "") EXCEPT !.json = FALSE],
     [Data(0, <<>>, "") EXCEPT !.main = FALSE],
     Data(175, <<>>, nameOf(query))}

\* response.json() and the mapping into a Weather record; json() rejects on
\* a body that is not JSON, data.main.temp and data.weather[0].main throw
\* on a missing main or an empty conditions list.
weatherOf(data) ==
    IF ~data.json \/ ~data.main \/ data.weather = <<>>
    THEN [threw |-> TRUE, value |-> NullWeather]
    ELSE [threw |-> FALSE,
          value |-> [temp |-> MathRound(data.temp, 10),
                     condition |-> data.weather[1].main,
                     icon |-> data.weather[1].icon,
                     location |-> data.name]]

\* No call of the weather service yet.  geolocation and failed record what
\* happened to the call: how the position was obtained, whether the request
\* or its body failed.
NoClient ==
    [pc |-> "none", fn |-> "none", query |-> ByCity(<<>>),
     geolocation |-> "none", failed |-> FALSE, threw |-> FALSE,
     result |-> NullWeather]

\* A catch block that returns the fallback record.
catchReturnsFallback(c) ==
    [c EXCEPT !.pc = "returned", !.failed = TRUE, !.result = getFallbackWeather]

\* getWeatherByCity's catch block: log and rethrow.
getWeatherByCityCatch(c) ==
    [c EXCEPT !.pc = "threw", !.failed = TRUE, !.threw = TRUE]

\* fetchWeatherData's catch blocks throwing the error on.
fetchWeatherDataRethrows(c) ==
    [c EXCEPT !.pc = "threw", !.failed = TRUE, !.threw = TRUE]

\* fetchWeatherData's catch blocks: log and return getFallbackWeather().
fetchWeatherDataCatch(c) ==
    [c EXCEPT !.pc = "returned", !.failed = TRUE, !.result = getFallbackWeather]

\* The catch block of the function that c runs.
catch(c) ==
    IF c.fn = "getWeatherData" THEN fetchWeatherDataCatch(c)
    ELSE getWeatherByCityCatch(c)

(* ------------------------------- theme --------------------------------- *)

Themes == {"light", "dark"}

\* ThemeProvider before its effect has run, with the stored preference
\* ("null" when the key is absent) and the OS preference; toggled tells that
\* toggleTheme has run.
NewTheme(storedTheme, prefersDark) ==
    [mounted |-> FALSE, theme |-> "light", stored |-> storedTheme,
     prefersDark |-> prefersDark, dark |-> FALSE, toggled |-> FALSE]

\* storedTheme || (prefersDark ? "dark" : "light")
initialTheme(storedTheme, prefersDark) ==
    IF storedTheme # "null" THEN storedTheme
    ELSE IF prefersDark THEN "dark" ELSE "light"

\* applyTheme adding the class whatever the theme.
applyThemeAdds(newTheme) == TRUE

\* applyTheme: whether the document element has the class "dark" afterwards.
applyTheme(newTheme) == newTheme = "dark"

\* toggleTheme's newTheme
newTheme(current) == IF current = "light" THEN "dark" ELSE "light"

(* ------------------------------- state --------------------------------- *)

VARIABLES
    storage,    \* the value under STORAGE_KEY in localStorage
    ops,        \* handler runs so far that may change that value
    version,    \* how many times that value has been written or removed
    now,        \* the latest value read from the clock
    call,       \* per caller, the frame of its saveJournalEntry call
    home,       \* state of the home page
    trends,     \* state of the trends page
    settings,   \* state of the settings page
    probe,      \* one call of a pure function of the program: its arguments,
                \* the argument list after the call, and what it returned
    client,     \* the weather service's call in flight, or its latest call
    theme       \* ThemeProvider's state, the stored preference, the document

vars == <<storage, ops, version, now, call, home, trends, settings, probe, client, theme>>

Callers == {"home", "trends"}

NoCall ==
    [pc |-> "none", newEntry |-> NoEntry, existingEntries |-> <<>>,
     readVersion |-> 0, readKind |-> "none", wroteVersion |-> 0]

\* saveJournalEntry up to its await, entered at clock value t: build the
\* entry, read the list.
SaveBegin(entryData, t) ==
    [pc |-> "awaiting",
     newEntry |-> NewEntry(entryData, t),
     existingEntries |-> getJournalEntries(storage).value,
     readVersion |-> version,
     readKind |-> storage.kind,
     wroteVersion |-> 0]

\* SaveWrite reading the list again at the time of the write.
SaveWriteRereads(c) ==
    Stored(updatedEntries(call[c].newEntry, getJournalEntries(storage).value))

\* SaveWrite storing the new entry alone.
SaveWriteOnlyNew(c) == Stored(<<call[c].newEntry>>)

\* What saveJournalEntry's setItem stores.
SaveWrite(c) == Stored(updatedEntries(call[c].newEntry, call[c].existingEntries))

\* No function has been called.
NoProbe ==
    [fn |-> "none", entries |-> <<>>, arg |-> "", t |-> 0,
     after |-> <<>>, threw |-> FALSE, result |-> <<>>, downloads |-> <<>>]

\* The settings page before its effects have run; exportToast is the title of
\* handleExport's latest toast, downloads the files its link.click() started.
NewSettings ==
    [pc |-> "unmounted", showConfirmDelete |-> FALSE, entryCount |-> 0,
     exportFormat |-> "csv", isExporting |-> FALSE, exportToast |-> "",
     downloads |-> <<>>]

Init ==
    /\ storage \in {Absent, Invalid, NotArray}
    /\ version = 0
    /\ ops = 0
    /\ now = 0
    /\ call = [c \in Callers |-> NoCall]
    /\ home = [pc |-> "unmounted", selectedDate |-> 0, selectedMood |-> NullMood,
               note |-> <<>>, weather |-> NullWeather, entries |-> <<>>,
               isLoading |-> TRUE, isLoadingWeather |-> FALSE, toast |-> "",
               cityInput |-> <<>>, showCityInput |-> FALSE]
    /\ trends = [pc |-> "unmounted", entries |-> <<>>,
                 addingSamples |-> FALSE, samples |-> <<>>, i |-> 0]
    /\ settings = NewSettings
    /\ probe = NoProbe
    /\ client = NoClient
    /\ theme = NewTheme("null", FALSE)

\* The clock values a handler may read: time does not run backwards.
ClockReadings == now..MaxClock

(* ------------------------------ home page ------------------------------ *)

\* Mount at clock value t: loadEntries reads the list, loadWeatherData starts.
HomeMount(t) ==
    /\ home.pc = "unmounted"
    /\ t \in ClockReadings
    /\ now' = t
    /\ LET r == getJournalEntries(storage)
       IN  home' = [home EXCEPT !.pc = "idle",
                                !.selectedDate = t,
                                !.entries = IF r.threw THEN @ ELSE r.value,
                                !.toast = IF r.threw THEN "Error loading entries" ELSE @,
                                !.isLoading = FALSE,
                                !.isLoadingWeather = TRUE]
    /\ UNCHANGED <<storage, ops, version, call, trends, settings, probe, client, theme>>

\* loadWeatherData resumes: getWeatherData has answered.
HomeWeatherLoaded(w) ==
    /\ home.pc = "idle"
    /\ home.isLoadingWeather
    /\ home' = [home EXCEPT !.weather = w, !.isLoadingWeather = FALSE]
    /\ UNCHANGED <<storage, ops, version, now, call, trends, settings, probe, client, theme>>

\* MoodSelector: onSelectMood(m)
SelectMood(m) ==
    /\ home.pc = "idle"
    /\ home' = [home EXCEPT !.selectedMood = m]
    /\ UNCHANGED <<storage, ops, version, now, call, trends, settings, probe, client, theme>>

\* handleChange passing every value on.
handleChangeAny(value, newValue) == newValue

\* NoteInput.handleChange: the note after onChange is called, or not.
handleChange(value, newValue) ==
    IF StrLen(newValue) <= maxLength THEN newValue ELSE value

\* NoteInput.handleChange with e.target.value = v
NoteChange(v) ==
    /\ home.pc = "idle"
    /\ home' = [home EXCEPT !.note = handleChange(@, v)]
    /\ UNCHANGED <<storage, ops, version, now, call, trends, settings, probe, client, theme>>

\* CalendarView: onSelectDate(d)
SelectDate(d) ==
    /\ home.pc = "idle"
    /\ home' = [home EXCEPT !.selectedDate = d]
    /\ UNCHANGED <<storage, ops, version, now, call, trends, settings, probe, client, theme>>

\* handleSaveEntry's checks passing whatever the form holds.
noValidation(mood, weather) == ""

\* The two checks at the head of handleSaveEntry: the title of the toast of
\* the check that returns early, "" when both pass.
validation(mood, weather) ==
    IF mood = NullMood THEN "Please select a mood"
    ELSE IF weather = NullWeather THEN "Weather data not available"
    ELSE ""

\* handleSaveEntry's catch block also resetting the form.
saveErrorResetsForm(h) ==
    [h EXCEPT !.pc = "idle", !.selectedMood = NullMood, !.note = <<>>,
              !.toast = "Error saving entry"]

\* handleSaveEntry's catch block: only a toast.
saveError(h) == [h EXCEPT !.pc = "idle", !.toast = "Error saving entry"]

\* handleSaveEntry, clicked at clock value t, up to the await inside
\* saveJournalEntry.
handleSaveEntry(t) ==
    /\ home.pc = "idle"
    /\ ~home.isLoadingWeather
    /\ t \in ClockReadings
    /\ IF validation(home.selectedMood, home.weather) # ""
       THEN /\ t = now
            /\ home' = [home EXCEPT !.toast = validation(home.selectedMood, home.weather)]
            /\ UNCHANGED <<call, ops, now>>
       ELSE /\ ops < MaxOps
            /\ now' = t
            /\ ops' = ops + 1
            /\ call' = [call EXCEPT !["home"] =
                          SaveBegin([date |-> home.selectedDate,
                                     mood |-> home.selectedMood,
                                     note |-> OrElse(trim(home.note), DefaultNote(home.selectedMood)),
                                     weather |-> home.weather], t)]
            /\ home' = [home EXCEPT !.pc = "saving"]
    /\ UNCHANGED <<storage, version, trends, settings, probe, client, theme>>

\* saveJournalEntry resumes: setItem stores the list or throws; then
\* handleSaveEntry resumes after its await, or in its catch block.
HomeSaveEnd(ok) ==
    /\ home.pc = "saving"
    /\ IF ok
       THEN /\ storage' = SaveWrite("home")
            /\ version' = version + 1
            /\ call' = [call EXCEPT !["home"].pc = "returned",
                                    !["home"].wroteVersion = version + 1]
            /\ home' = [home EXCEPT !.pc = "idle",
                                    !.entries = <<call["home"].newEntry>> \o @,
                                    !.selectedMood = NullMood,
                                    !.note = <<>>,
                                    !.toast = "Entry saved!"]
       ELSE /\ call' = [call EXCEPT !["home"].pc = "threw"]
            /\ home' = saveError(home)
            /\ UNCHANGED <<storage, version>>
    /\ UNCHANGED <<ops, now, trends, settings, probe, client, theme>>

(* ----------------------------- trends page ----------------------------- *)

\* Mount: loadEntries reads the list.
TrendsMount ==
    /\ trends.pc = "unmounted"
    /\ trends' = [trends EXCEPT !.pc = "idle",
                                !.entries = getJournalEntries(storage).value]
    /\ UNCHANGED <<storage, ops, version, now, call, home, settings, probe, client, theme>>

\* handleAddSampleEntries, clicked at clock value t, up to the await inside
\* the first saveJournalEntry.
handleAddSampleEntries(t) ==
    /\ trends.pc = "idle"
    /\ ~trends.addingSamples
    /\ t \in ClockReadings
    /\ now' = t
    /\ ops < MaxOps
    /\ ops' = ops + 1
    /\ call' = [call EXCEPT !["trends"] = SaveBegin(sampleEntries(t)[1], t)]
    /\ trends' = [trends EXCEPT !.pc = "saving", !.addingSamples = TRUE,
                                !.samples = sampleEntries(t), !.i = 1]
    /\ UNCHANGED <<storage, version, home, settings, probe, client, theme>>

\* saveJournalEntry resumes inside addSampleEntries: setItem stores the list,
\* or throws and handleAddSampleEntries' catch and finally blocks run.
TrendsSaveEnd(ok) ==
    /\ trends.pc = "saving"
    /\ IF ok
       THEN /\ storage' = SaveWrite("trends")
            /\ version' = version + 1
            /\ call' = [call EXCEPT !["trends"].pc = "returned",
                                    !["trends"].wroteVersion = version + 1]
            /\ trends' = [trends EXCEPT !.pc = "looping"]
       ELSE /\ call' = [call EXCEPT !["trends"].pc = "threw"]
            /\ trends' = [trends EXCEPT !.pc = "idle", !.addingSamples = FALSE]
            /\ UNCHANGED <<storage, version>>
    /\ UNCHANGED <<ops, now, home, settings, probe, client, theme>>

\* addSampleEntries' loop resumes after a save, at clock value t: the next
\* sample's save up to its await, or after the last one the reload in
\* handleAddSampleEntries.
TrendsLoopNext(t) ==
    /\ trends.pc = "looping"
    /\ t \in ClockReadings
    /\ IF trends.i < Len(trends.samples)
       THEN /\ now' = t
            /\ call' = [call EXCEPT !["trends"] = SaveBegin(trends.samples[trends.i + 1], t)]
            /\ trends' = [trends EXCEPT !.pc = "saving", !.i = @ + 1]
       ELSE /\ t = now
            /\ UNCHANGED now
            /\ trends' = [trends EXCEPT !.pc = "idle",
                                        !.entries = getJournalEntries(storage).value,
                                        !.addingSamples = FALSE]
            /\ UNCHANGED call
    /\ UNCHANGED <<storage, ops, version, home, settings, probe, client, theme>>

(* ---------------------------- settings page ---------------------------- *)

\* Mount: loadEntryCount reads the list.
SettingsMount ==
    /\ settings.pc = "unmounted"
    /\ settings' = [settings EXCEPT !.pc = "idle",
                                    !.showConfirmDelete = FALSE,
                                    !.entryCount = Len(getJournalEntries(storage).value)]
    /\ UNCHANGED <<storage, ops, version, now, call, home, trends, probe, client, theme>>

\* The settings page after removeItem, without setEntryCount(0).
clearedKeepsCount(s) == [s EXCEPT !.showConfirmDelete = FALSE]

\* The settings page after removeItem, without setShowConfirmDelete(false).
clearedKeepsConfirm(s) == [s EXCEPT !.entryCount = 0]

\* The settings page after removeItem: setEntryCount(0),
\* setShowConfirmDelete(false).
cleared(s) == [s EXCEPT !.entryCount = 0, !.showConfirmDelete = FALSE]

\* handleClearData; removeItem removes the value or throws.
handleClearData(ok) ==
    /\ settings.pc = "idle"
    /\ IF settings.showConfirmDelete
       THEN IF ok
            THEN /\ ops < MaxOps
                 /\ ops' = ops + 1
                 /\ storage' = Absent
                 /\ version' = version + 1
                 /\ settings' = cleared(settings)
            ELSE UNCHANGED <<storage, ops, version, settings>>
       ELSE /\ ok
            /\ settings.entryCount # 0
            /\ settings' = [settings EXCEPT !.showConfirmDelete = TRUE]
            /\ UNCHANGED <<storage, ops, version>>
    /\ UNCHANGED <<now, call, home, trends, probe, client, theme>>

cancelDelete ==
    /\ settings.pc = "idle"
    /\ settings.showConfirmDelete
    /\ settings' = [settings EXCEPT !.showConfirmDelete = FALSE]
    /\ UNCHANGED <<storage, ops, version, now, call, home, trends, probe, client, theme>>

\* The format radio buttons: setExportFormat(format)
setExportFormat(format) ==
    /\ settings.pc = "idle"
    /\ settings' = [settings EXCEPT !.exportFormat = format]
    /\ UNCHANGED <<storage, ops, version, now, call, home, trends, probe, client, theme>>

\* handleExport, clicked at clock value t: the list is read, then checked,
\* then exported; the button is disabled while entryCount is 0.
handleExport(t, ok) ==
    /\ settings.pc = "idle"
    /\ ~settings.isExporting
    /\ settings.entryCount # 0
    /\ Len(settings.downloads) < MaxExports
    /\ t \in ClockReadings
    /\ now' = t
    /\ LET outcome == exportOutcome(getJournalEntries(storage).value,
                                    settings.exportFormat, t, ok)
       IN  settings' = [settings EXCEPT !.isExporting = FALSE,
                                        !.exportToast = outcome.toast,
                                        !.downloads = @ \o outcome.downloads]
    /\ UNCHANGED <<storage, ops, version, call, home, trends, probe, client, theme>>

\* handleClearData confirmed on a settings page in another tab.
handleClearDataElsewhere ==
    /\ storage.kind = "list"
    /\ ops < MaxOps
    /\ ops' = ops + 1
    /\ storage' = Absent
    /\ version' = version + 1
    /\ UNCHANGED <<now, call, home, trends, settings, probe, client, theme>>

(* ----------------------- home page: the header ------------------------ *)

\* loadWeatherData calls getWeatherData: fetchWeatherData up to its first
\* await; without navigator.geolocation the default location is resolved at
\* once and the request is sent.
getWeatherDataCall(supported) ==
    /\ home.pc # "unmounted"
    /\ home.isLoadingWeather
    /\ client.pc = "none"
    /\ client' = IF supported
                 THEN [NoClient EXCEPT !.pc = "locating", !.fn = "getWeatherData"]
                 ELSE [NoClient EXCEPT !.pc = "fetching", !.fn = "getWeatherData",
                                       !.geolocation = "unsupported",
                                       !.query = ByCoordinates(getCurrentLocation("unsupported"))]
    /\ UNCHANGED <<storage, ops, version, now, call, home, trends, settings, probe, theme>>

\* getCurrentPosition answers; fetchWeatherData starts the 5000 ms timer and
\* sends the request.
GeolocationAnswers(outcome) ==
    /\ client.pc = "locating"
    /\ client' = [client EXCEPT !.pc = "fetching", !.geolocation = outcome,
                                !.query = ByCoordinates(getCurrentLocation(outcome))]
    /\ UNCHANGED <<storage, ops, version, now, call, home, trends, settings, probe, theme>>

\* fetch settles; only fetchWeatherData has a timer that aborts it.
FetchSettles(outcome) ==
    /\ client.pc = "fetching"
    /\ outcome = "abort" => client.fn = "getWeatherData"
    /\ client' = IF outcome = "ok" THEN [client EXCEPT !.pc = "reading"]
                 ELSE catch(client)
    /\ UNCHANGED <<storage, ops, version, now, call, home, trends, settings, probe, theme>>

\* response.json() settles and the record is built.
BodySettles(data) ==
    /\ client.pc = "reading"
    /\ client' = IF weatherOf(data).threw THEN catch(client)
                 ELSE [client EXCEPT !.pc = "returned",
                                     !.result = weatherOf(data).value]
    /\ UNCHANGED <<storage, ops, version, now, call, home, trends, settings, probe, theme>>

\* loadWeatherData resumes with what getWeatherData returned.
loadWeatherData ==
    /\ client.fn = "getWeatherData"
    /\ client.pc = "returned"
    /\ HomeWeatherLoaded(client.result)

\* The "Change city" button, shown once weather is there and not loading.
toggleCityInput ==
    /\ home.pc # "unmounted"
    /\ home.weather # NullWeather
    /\ ~home.isLoadingWeather
    /\ home' = [home EXCEPT !.showCityInput = ~@]
    /\ UNCHANGED <<storage, ops, version, now, call, trends, settings, probe, client, theme>>

\* The city form's Cancel button.
cancelCityInput ==
    /\ home.showCityInput
    /\ home' = [home EXCEPT !.showCityInput = FALSE]
    /\ UNCHANGED <<storage, ops, version, now, call, trends, settings, probe, client, theme>>

\* The city form's input: setCityInput(v)
setCityInput(v) ==
    /\ home.showCityInput
    /\ home' = [home EXCEPT !.cityInput = v]
    /\ UNCHANGED <<storage, ops, version, now, call, trends, settings, probe, client, theme>>

\* handleCityWeather up to the await inside getWeatherByCity; the form's
\* submit button is disabled while the weather is loading.
handleCityWeather ==
    /\ home.showCityInput
    /\ ~home.isLoadingWeather
    /\ IF trim(home.cityInput) = <<>>
       THEN UNCHANGED <<home, client>>
       ELSE /\ home' = [home EXCEPT !.isLoadingWeather = TRUE]
            /\ client' = [NoClient EXCEPT !.pc = "fetching",
                                          !.fn = "getWeatherByCity",
                                          !.query = ByCity(home.cityInput)]
    /\ UNCHANGED <<storage, ops, version, now, call, trends, settings, probe, theme>>

\* handleCityWeather's catch and finally blocks.
cityNotFound(h) ==
    [h EXCEPT !.toast = "City not found", !.isLoadingWeather = FALSE]

\* handleCityWeather resumes after getWeatherByCity has returned or thrown.
handleCityWeatherEnd ==
    /\ client.fn = "getWeatherByCity"
    /\ client.pc \in {"returned", "threw"}
    /\ home.isLoadingWeather
    /\ home' = IF client.pc = "returned"
               THEN [home EXCEPT !.weather = client.result,
                                 !.showCityInput = FALSE,
                                 !.cityInput = <<>>,
                                 !.toast = "Weather updated",
                                 !.isLoadingWeather = FALSE]
               ELSE cityNotFound(home)
    /\ UNCHANGED <<storage, ops, version, now, call, trends, settings, probe, client, theme>>

\* ThemeProvider's effect on mount.
ThemeMount ==
    /\ ~theme.mounted
    /\ theme' = [theme EXCEPT
                   !.mounted = TRUE,
                   !.theme = initialTheme(theme.stored, theme.prefersDark),
                   !.dark = applyTheme(initialTheme(theme.stored, theme.prefersDark))]
    /\ UNCHANGED <<storage, ops, version, now, call, home, trends, settings, probe, client>>

\* toggleTheme, from the button in the header.
toggleTheme ==
    /\ theme.mounted
    /\ home.pc # "unmounted"
    /\ theme' = [theme EXCEPT !.theme = newTheme(theme.theme),
                              !.stored = newTheme(theme.theme),
                              !.dark = applyTheme(newTheme(theme.theme)),
                              !.toggled = TRUE]
    /\ UNCHANGED <<storage, ops, version, now, call, home, trends, settings, probe, client>>

(* ------------------------ calls of the functions ----------------------- *)

\* All sequences over S of length at most n.
SeqsUpTo(S, n) == UNION {[1..k -> S] : k \in 0..n}

\* An entry of the given day, as saveJournalEntry builds it.
EntryAt(ts) ==
    NewEntry([date |-> ts, mood |-> "happy", note |-> <<"a">>,
              weather |-> getFallbackWeather], 0)

\* Timestamps at, next to and away from the week and month cutoffs of the
\* first clock reading.
FilterTimestamps ==
    {0 - 30 * msInDay - 1, 0 - 30 * msInDay, 0 - 7 * msInDay - 1, 0 - 7 * msInDay, 0}

FilterInputs == SeqsUpTo({EntryAt(ts) : ts \in FilterTimestamps}, MaxFilterLen)

\* The persisted collection and the list that a function is about to be
\* called with; no page is open.
InitCall(persisted, entries) ==
    /\ storage = Stored(persisted)
    /\ version = 0
    /\ ops = 0
    /\ now = 0
    /\ call = [c \in Callers |-> NoCall]
    /\ home = [pc |-> "unmounted", selectedDate |-> 0, selectedMood |-> NullMood,
               note |-> <<>>, weather |-> NullWeather, entries |-> <<>>,
               isLoading |-> TRUE, isLoadingWeather |-> FALSE, toast |-> "",
               cityInput |-> <<>>, showCityInput |-> FALSE]
    /\ trends = [pc |-> "unmounted", entries |-> <<>>,
                 addingSamples |-> FALSE, samples |-> <<>>, i |-> 0]
    /\ settings = NewSettings
    /\ probe = [NoProbe EXCEPT !.entries = entries, !.after = entries]
    /\ client = NoClient
    /\ theme = NewTheme("null", FALSE)

\* filterEntriesByTimeRange(entries, range) called at clock value t.
filterEntriesByTimeRangeCall(range, t) ==
    /\ t \in ClockReadings
    /\ now' = t
    /\ probe' = [probe EXCEPT !.fn = "filter", !.arg = range, !.t = t,
                              !.after = probe.entries,
                              !.result = filterEntriesByTimeRange(probe.entries, range, t)]
    /\ UNCHANGED <<storage, ops, version, call, home, trends, settings, client, theme>>

\* weather.condition values: two that differ in case only, and a third.
Conditions == {"Rain", "rain", "Clear"}

\* An entry of mood m written in weather of condition c.
EntryOf(m, c) ==
    NewEntry([date |-> 0, mood |-> m, note |-> <<"a">>,
              weather |-> [getFallbackWeather EXCEPT !.condition = c]], 0)

AnalyticsInputs ==
    SeqsUpTo({EntryOf(m, c) : m \in MoodSet, c \in Conditions}, MaxAnalyticsLen)

\* MoodTrends renders: moodStats is computed from its entries.
moodStatsCall ==
    /\ probe' = [probe EXCEPT !.fn = "moodStats", !.arg = "",
                              !.after = probe.entries,
                              !.result = moodStats(probe.entries)]
    /\ UNCHANGED <<storage, ops, version, now, call, home, trends, settings, client, theme>>

\* WeatherCorrelation renders: correlation is computed from its entries.
correlationCall ==
    /\ probe' = [probe EXCEPT !.fn = "correlation", !.arg = "",
                              !.after = probe.entries,
                              !.result = correlation(probe.entries)]
    /\ UNCHANGED <<storage, ops, version, now, call, home, trends, settings, client, theme>>

\* Entries to export: one with a double quote in its note and no location,
\* one plain.
ExportEntries ==
    {NewEntry([date |-> 0, mood |-> "sad", note |-> <<"a", "\"", "b">>,
               weather |-> [getFallbackWeather EXCEPT !.location = ""]], 0),
     EntryOf("happy", "Rain")}

ExportInputs == SeqsUpTo(ExportEntries, MaxExportLen)

\* Entries to write as CSV: notes with a double quote, a line break, a comma;
\* a location with double quotes, and no location.
CsvEntries ==
    {NewEntry([date |-> 0, mood |-> "sad", note |-> <<"a", "\"", "b">>,
               weather |-> [getFallbackWeather EXCEPT !.location = ""]], 0),
     NewEntry([date |-> 0, mood |-> "sick", note |-> <<"a", "\n", "b">>,
               weather |-> getFallbackWeather], 0),
     NewEntry([date |-> 0, mood |-> "angry", note |-> <<"a", ",", "b">>,
               weather |-> ApiWeather], 0),
     NewEntry([date |-> 0, mood |-> "happy", note |-> DefaultNote("happy"),
               weather |-> [ApiWeather EXCEPT !.location = QuotedName]], 0)}

CsvInputs == SeqsUpTo(CsvEntries, MaxCsvLen)

\* exportJournalEntries(entries, format) called at clock value t.
exportJournalEntriesCall(format, t, ok) ==
    /\ Len(probe.downloads) < MaxExports
    /\ t \in ClockReadings
    /\ now' = t
    /\ LET r == exportJournalEntries(probe.entries, format, t, ok)
       IN  probe' = [probe EXCEPT !.fn = "export", !.arg = format, !.t = t,
                                 !.after = probe.entries,
                                 !.threw = r.threw,
                                 !.result = r.fileName,
                                 !.downloads = @ \o r.downloads]
    /\ UNCHANGED <<storage, ops, version, call, home, trends, settings, client, theme>>

(* --------------------------- specifications ---------------------------- *)

\* The home, trends and settings tabs side by side, all within one reading of
\* the clock; on the home page the user only picks a mood, and the weather
\* request has failed.
Next ==
    \/ HomeMount(now)
    \/ HomeWeatherLoaded(getFallbackWeather)
    \/ SelectMood("sad")
    \/ handleSaveEntry(now)
    \/ \E ok \in BOOLEAN : HomeSaveEnd(ok)
    \/ TrendsMount
    \/ handleAddSampleEntries(now)
    \/ \E ok \in BOOLEAN : TrendsSaveEnd(ok)
    \/ TrendsLoopNext(now)
    \/ SettingsMount
    \/ \E ok \in BOOLEAN : handleClearData(ok)
    \/ cancelDelete

Spec == Init /\ [][Next]_vars

\* The home and trends tabs side by side while the clock advances; on the
\* home page the user picks a mood and a day.
NextClock ==
    \/ \E t \in 0..MaxClock : HomeMount(t)
    \/ HomeWeatherLoaded(getFallbackWeather)
    \/ SelectMood("sad")
    \/ \E d \in CalendarDates : SelectDate(d)
    \/ \E t \in 0..MaxClock : handleSaveEntry(t)
    \/ HomeSaveEnd(TRUE)
    \/ TrendsMount
    \/ \E t \in 0..MaxClock : handleAddSampleEntries(t)
    \/ TrendsSaveEnd(TRUE)
    \/ \E t \in 0..MaxClock : TrendsLoopNext(t)

SpecClock == Init /\ [][NextClock]_vars

\* The home tab alone, the form used in full.
NextForm ==
    \/ HomeMount(now)
    \/ \E w \in WeatherResults : HomeWeatherLoaded(w)
    \/ \E m \in MoodSet : SelectMood(m)
    \/ \E v \in NoteInputs : NoteChange(v)
    \/ handleSaveEntry(now)
    \/ \E ok \in BOOLEAN : HomeSaveEnd(ok)

SpecForm == Init /\ [][NextForm]_vars

\* filterEntriesByTimeRange on every list of FilterInputs, for every range,
\* while the clock advances.
InitFilter == \E entries \in FilterInputs : InitCall(entries, entries)

NextFilter ==
    \E range \in TimeRanges, t \in 0..MaxClock : filterEntriesByTimeRangeCall(range, t)

SpecFilter == InitFilter /\ [][NextFilter]_vars

\* The mood statistics and the weather correlation on every list of
\* AnalyticsInputs.
InitAnalytics == \E entries \in AnalyticsInputs : InitCall(entries, entries)

NextAnalytics ==
    \/ moodStatsCall
    \/ correlationCall

SpecAnalytics == InitAnalytics /\ [][NextAnalytics]_vars

\* exportJournalEntries on every list of ExportInputs, and the settings page
\* exporting the persisted list while another tab may clear it.
InitExport == \E persisted, entries \in ExportInputs : InitCall(persisted, entries)

NextExport ==
    \/ \E format \in ExportFormats, ok \in BOOLEAN : exportJournalEntriesCall(format, now, ok)
    \/ SettingsMount
    \/ \E format \in ExportFormats : setExportFormat(format)
    \/ \E ok \in BOOLEAN : handleExport(now, ok)
    \/ handleClearDataElsewhere

SpecExport == InitExport /\ [][NextExport]_vars

\* exportJournalEntries on every list of CsvInputs.
InitCsv == \E entries \in CsvInputs : InitCall(<<>>, entries)

NextCsv ==
    \E format \in ExportFormats, t \in 0..MaxClock, ok \in BOOLEAN :
        exportJournalEntriesCall(format, t, ok)

SpecCsv == InitCsv /\ [][NextCsv]_vars

\* The home tab's header: the weather of the current location, the city
\* form, and the theme, for every stored and OS preference.
InitHeader ==
    /\ storage = Absent
    /\ version = 0
    /\ ops = 0
    /\ now = 0
    /\ call = [c \in Callers |-> NoCall]
    /\ home = [pc |-> "unmounted", selectedDate |-> 0, selectedMood |-> NullMood,
               note |-> <<>>, weather |-> NullWeather, entries |-> <<>>,
               isLoading |-> TRUE, isLoadingWeather |-> FALSE, toast |-> "",
               cityInput |-> <<>>, showCityInput |-> FALSE]
    /\ trends = [pc |-> "unmounted", entries |-> <<>>,
                 addingSamples |-> FALSE, samples |-> <<>>, i |-> 0]
    /\ settings = NewSettings
    /\ probe = NoProbe
    /\ client = NoClient
    /\ \E storedTheme \in Themes \cup {"null"}, prefersDark \in BOOLEAN :
           theme = NewTheme(storedTheme, prefersDark)

\* The steps that the browser and the weather API take for a call in flight.
ClientStep ==
    \/ \E outcome \in GeolocationOutcomes : GeolocationAnswers(outcome)
    \/ \E outcome \in FetchOutcomes : FetchSettles(outcome)
    \/ \E data \in Bodies(client.query) : BodySettles(data)

NextHeader ==
    \/ HomeMount(now)
    \/ \E supported \in BOOLEAN : getWeatherDataCall(supported)
    \/ ClientStep
    \/ loadWeatherData
    \/ toggleCityInput
    \/ cancelCityInput
    \/ \E v \in CityInputs : setCityInput(v)
    \/ handleCityWeather
    \/ handleCityWeatherEnd
    \/ ThemeMount
    \/ toggleTheme

SpecHeader == InitHeader /\ [][NextHeader]_vars

\* The position request has a 5000 ms timeout and fetchWeatherData aborts
\* its request after 5000 ms, so a getWeatherData call in flight goes on;
\* getWeatherByCity has no timer.
SpecHeaderLive ==
    SpecHeader /\ WF_vars(client.fn = "getWeatherData" /\ ClientStep)

\* The home tab alone, notes typed at and around the limit of the note box.
NextNote ==
    \/ HomeMount(now)
    \/ HomeWeatherLoaded(getFallbackWeather)
    \/ \E m \in {"happy", "sad"} : SelectMood(m)
    \/ \E v \in NoteEdits : NoteChange(v)
    \/ handleSaveEntry(now)
    \/ \E ok \in BOOLEAN : HomeSaveEnd(ok)

SpecNote == Init /\ [][NextNote]_vars

(* ------------------------------ the claims ----------------------------- *)

\* What the trends page's latest list call returned: inside a save, the
\* existingEntries of that save; after the reload, the page's entries.
TrendsListed == IF trends.pc = "saving" THEN call["trends"].existingEntries ELSE trends.entries

\* The trends page lists right after one of its saves has returned.
TrendsListsAfterSave ==
    /\ trends.pc = "looping"
    /\ trends'.pc # "looping"
    /\ call["trends"].pc = "returned"

\* C1, as stated: whenever a caller lists after its save has completed, the
\* list contains the entry the save returned, field for field.
C1_SaveThenListAlways ==
    [][TrendsListsAfterSave => InSeq(call["trends"].newEntry, TrendsListed')]_vars

\* C1, amended: whenever a caller lists after its save has completed, and no
\* other caller has written or removed the persisted value since that save
\* wrote it, the list contains the entry the save returned, field for field.
C1_SaveThenList ==
    [][(TrendsListsAfterSave /\ version = call["trends"].wroteVersion)
          => InSeq(call["trends"].newEntry, TrendsListed')]_vars

\* The trends page has reloaded after its last save, undisturbed, and holds
\* the saved entry.
C1_Witness ==
    /\ trends.pc = "idle"
    /\ call["trends"].pc = "returned"
    /\ version = call["trends"].wroteVersion
    /\ Len(trends.entries) >= MaxSamples
    /\ InSeq(call["trends"].newEntry, trends.entries)

\* C2: every result of list is ordered by timestamp, most recent first,
\* whatever the order of the persisted collection.
C2_ListSorted ==
    /\ IsSortedDesc(getJournalEntries(storage).value)
    /\ IsSortedDesc(trends.entries)
    /\ \A c \in Callers : IsSortedDesc(call[c].existingEntries)

\* The persisted collection is out of order after several writes, and the
\* trends page holds a list of it.
C2_Witness ==
    /\ storage.kind = "list"
    /\ ~IsSortedDesc(storage.entries)
    /\ trends.pc = "idle"
    /\ BagOf(trends.entries) = BagOf(storage.entries)
    /\ trends.entries # storage.entries
    /\ version >= 2

\* C3: no two persisted entries have the same id.
C3_IdsUnique ==
    \A i, j \in 1..Len(storage.entries) :
        storage.entries[i].id = storage.entries[j].id => i = j

\* Both callers' saves have returned, each had read the list before the other
\* wrote, and the persisted value is as the later of the two writes left it.
BothSavesRaced ==
    /\ call["home"].pc = "returned"
    /\ call["trends"].pc = "returned"
    /\ call["home"].readVersion < call["trends"].wroteVersion
    /\ call["trends"].readVersion < call["home"].wroteVersion
    /\ version \in {call["home"].wroteVersion, call["trends"].wroteVersion}
    /\ version >= call["home"].wroteVersion
    /\ version >= call["trends"].wroteVersion

RaceLater == IF call["home"].wroteVersion = version THEN "home" ELSE "trends"

RaceEarlier == IF RaceLater = "home" THEN "trends" ELSE "home"

\* C4: when two saves both read the list before either writes it, then after
\* both have completed the persisted collection holds the later writer's new
\* entry and has lost the other save's addition.
C4_RaceLosesAddition ==
    BothSavesRaced =>
        /\ storage.kind = "list"
        /\ InSeq(call[RaceLater].newEntry, storage.entries)
        /\ Len(storage.entries) = Len(call[RaceLater].existingEntries) + 1
        /\ ~InSeq(call[RaceEarlier].newEntry, call[RaceLater].existingEntries)
              => ~InSeq(call[RaceEarlier].newEntry, storage.entries)

\* Such a race has happened: both saves are complete and only one of the two
\* new entries is persisted.
C4_Witness ==
    /\ BothSavesRaced
    /\ home.pc = "idle"
    /\ InSeq(call[RaceLater].newEntry, storage.entries)
    /\ ~InSeq(call[RaceEarlier].newEntry, storage.entries)

\* Every entry persisted before the step is persisted after it, with all of
\* its fields.
EntriesKept == BagOf(storage.entries) \sqsubseteq BagOf(storage'.entries)

\* The step is a completed clear-all on the settings page.
ClearCompleted ==
    /\ settings.showConfirmDelete
    /\ ~settings'.showConfirmDelete
    /\ ops' = ops + 1

\* The step is the write of caller c's save, which had read the list before
\* the persisted value was last changed.
StaleWrite(c) ==
    /\ call[c].pc = "awaiting"
    /\ call'[c].pc = "returned"
    /\ call[c].readVersion < version

\* C5, as stated: in every step the persisted entries keep all their fields,
\* and entries leave the store only through clear-all.
C5_OnlyClearRemoves ==
    [][EntriesKept \/ ClearCompleted]_vars

\* C5, amended: in every step the persisted entries keep all their fields,
\* and entries leave the store only through clear-all or through the write
\* of a save that had read the list before another caller changed it.
C5_OnlyClearOrStaleWriteRemoves ==
    [][EntriesKept \/ ClearCompleted \/ \E c \in Callers : StaleWrite(c)]_vars

\* The home page still shows an entry it saved, which a later write of the
\* trends page's overlapping save has removed from the store; and a save
\* onto a non-empty store has kept what was there.
C5_Witness ==
    /\ home.pc = "idle"
    /\ call["home"].pc = "returned"
    /\ InSeq(call["home"].newEntry, home.entries)
    /\ storage.kind = "list"
    /\ ~InSeq(call["home"].newEntry, storage.entries)
    /\ call["trends"].readVersion < call["home"].wroteVersion
    /\ call["trends"].wroteVersion > call["home"].wroteVersion
    /\ Len(storage.entries) >= 2

\* The step is the failure of the home page's save: setItem threw.
HomeSaveFailed ==
    /\ home.pc = "saving"
    /\ home'.pc = "idle"
    /\ call'["home"].pc = "threw"

\* C6: when the storage write fails during save, the error reaches the
\* caller, the persisted collection is as before the call, and the home page
\* keeps its entry list, selected mood and note; no entry is added.
C6_FailedSaveKeepsState ==
    [][HomeSaveFailed =>
          /\ home'.toast = "Error saving entry"
          /\ storage' = storage
          /\ version = call["home"].readVersion
                => getJournalEntries(storage').value = call["home"].existingEntries
          /\ home'.entries = home.entries
          /\ home'.selectedMood = home.selectedMood
          /\ home'.selectedMood = call["home"].newEntry.mood
          /\ home'.note = home.note
          /\ OrElse(trim(home'.note), DefaultNote(home'.selectedMood)) = call["home"].newEntry.note]_vars

\* A save from a filled-in form has failed, on a store that holds an entry.
C6_Witness ==
    /\ call["home"].pc = "threw"
    /\ home.pc = "idle"
    /\ home.toast = "Error saving entry"
    /\ home.selectedMood \in MoodSet
    /\ home.note # <<>>
    /\ Len(home.entries) = 1
    /\ storage = Stored(home.entries)

\* A page takes the result of a list call in this step.
HomeMounts == home.pc = "unmounted" /\ home'.pc = "idle"

TrendsMounts == trends.pc = "unmounted" /\ trends'.pc = "idle"

SettingsMounts == settings.pc = "unmounted" /\ settings'.pc = "idle"

SaveBegins(c) == call[c].pc # "awaiting" /\ call'[c].pc = "awaiting"

ListStep ==
    \/ HomeMounts
    \/ TrendsMounts
    \/ SettingsMounts
    \/ \E c \in Callers : SaveBegins(c)

Unparsable == storage.kind \in {"invalid", "notArray"}

C8_ClearEmptiesStore ==
    [][ClearCompleted =>
          /\ storage' = Absent
          /\ getJournalEntries(storage').value = <<>>
          /\ settings'.entryCount = 0]_vars

\* A store of at least two entries has been cleared.
C8_Witness ==
    /\ storage = Absent
    /\ version >= 3
    /\ settings.pc = "idle"
    /\ ~settings.showConfirmDelete
    /\ settings.entryCount = 0
    /\ Len(trends.entries) >= 2

AllWhiteSpace(s) == \A i \in 1..Len(s) : s[i] \in WhiteSpace

\* r is s without its leading and trailing white space.
IsTrimmed(r, s) ==
    /\ r # <<>>
    /\ r[1] \notin WhiteSpace
    /\ r[Len(r)] \notin WhiteSpace
    /\ \E i \in 1..Len(s) :
          /\ i + Len(r) - 1 <= Len(s)
          /\ r = SubSeq(s, i, i + Len(r) - 1)
          /\ \A k \in 1..Len(s) : (k < i \/ k > i + Len(r) - 1) => s[k] \in WhiteSpace

\* The note an entry gets from the form's note and mood.
NoteAsClaimed(p, note, m) ==
    IF AllWhiteSpace(note)
    THEN p = <<"Feeling", " ", m, " ", "today">>
    ELSE IsTrimmed(p, note)

\* C9: a save from a form whose note is empty or white space persists
\* "Feeling m today" for the selected mood m; with any other note it persists
\* that note without its leading and trailing white space.
C9_PersistedNote ==
    [][(home.pc = "saving" /\ call'["home"].pc = "returned") =>
          /\ storage'.kind = "list"
          /\ NoteAsClaimed(Head(storage'.entries).note, home.note, home.selectedMood)
          /\ Head(storage'.entries).mood = home.selectedMood]_vars

\* A save with a white-space note has persisted the default note of its
\* mood, and a later save has persisted its note trimmed.
C9_Witness ==
    /\ storage.kind = "list"
    /\ Len(storage.entries) = 2
    /\ storage.entries[1].note = <<"a">>
    /\ storage.entries[2].note = <<"Feeling", " ", "sick", " ", "today">>
    /\ storage.entries[2].mood = "sick"

\* The step shows one of handleSaveEntry's validation messages.
SaveRejected ==
    /\ home'.toast \in {"Please select a mood", "Weather data not available"}
    /\ home'.toast # home.toast

\* C10: a save attempt with no mood selected, or with no weather loaded, is
\* rejected before the store is called: from such a state no step calls the
\* store or changes the persisted collection, and the rejection leaves the
\* entry list, the note and the selected mood as they are.
C10_RejectedBeforeStore ==
    [][/\ (home.selectedMood = NullMood \/ home.weather = NullWeather) =>
             /\ call' = call
             /\ storage' = storage
             /\ home'.pc # "saving"
       /\ SaveRejected =>
             /\ home.selectedMood = NullMood \/ home.weather = NullWeather
             /\ home'.entries = home.entries
             /\ home'.note = home.note
             /\ home'.selectedMood = home.selectedMood
             /\ ops' = ops]_vars

\* A save attempt with a note but no mood has been rejected, after an
\* earlier save.
C10_Witness ==
    /\ home.toast = "Please select a mood"
    /\ home.selectedMood = NullMood
    /\ home.note # <<>>
    /\ home.pc = "idle"
    /\ call["home"].pc = "returned"
    /\ storage = Stored(home.entries)

\* How many times x occurs in s.
Occurrences(x, s) == Cardinality({i \in 1..Len(s) : s[i] = x})

\* r holds exactly the entries of s whose timestamp is at least cutoff, each
\* as often as s holds it.
ExactlyFrom(r, s, cutoff) ==
    /\ \A i \in 1..Len(r) : InSeq(r[i], s)
    /\ \A i \in 1..Len(s) :
          Occurrences(s[i], r) = IF s[i].timestamp >= cutoff THEN Occurrences(s[i], s) ELSE 0

\* C11: filter with range week returns exactly the entries with timestamp >=
\* now - 7 days, with range month exactly those with timestamp >= now - 30
\* days; an entry at the cutoff is kept, one a millisecond older is dropped.
C11_FilterCutoffs ==
    /\ (probe.fn = "filter" /\ probe.arg = "week")
          => ExactlyFrom(probe.result, probe.entries, probe.t - 7 * msInDay)
    /\ (probe.fn = "filter" /\ probe.arg = "month")
          => ExactlyFrom(probe.result, probe.entries, probe.t - 30 * msInDay)

\* The week filter has kept an entry at its cutoff and dropped an entry one
\* millisecond older.
C11_Witness ==
    /\ probe.fn = "filter"
    /\ probe.arg = "week"
    /\ probe.t = 0
    /\ probe.entries = <<EntryAt(0 - 7 * msInDay - 1), EntryAt(0 - 7 * msInDay), EntryAt(0)>>
    /\ probe.result = <<EntryAt(0 - 7 * msInDay), EntryAt(0)>>

\* Every entry of r is in s, at least as often.
ContainedIn(r, s) == \A i \in 1..Len(r) : Occurrences(r[i], r) <= Occurrences(r[i], s)

\* C12: at one current time, filter(e, week) is contained in filter(e, month),
\* that in filter(e, all), and filter(e, all) equals e.
C12_FilterNested ==
    probe.fn = "filter" =>
        LET e == probe.entries
            week == filterEntriesByTimeRange(e, "week", probe.t)
            month == filterEntriesByTimeRange(e, "month", probe.t)
            all == filterEntriesByTimeRange(e, "all", probe.t)
        IN  /\ probe.result = filterEntriesByTimeRange(e, probe.arg, probe.t)
            /\ ContainedIn(week, month)
            /\ ContainedIn(month, all)
            /\ all = e

\* The three ranges give three different results on the list just filtered.
C12_Witness ==
    /\ probe.fn = "filter"
    /\ probe.arg = "month"
    /\ Len(filterEntriesByTimeRange(probe.entries, "week", probe.t)) = 1
    /\ Len(probe.result) = 2
    /\ Len(probe.entries) = 3

\* r is s with some elements left out.
RECURSIVE IsSubsequence(_, _)
IsSubsequence(r, s) ==
    IF r = <<>> THEN TRUE
    ELSE IF s = <<>> THEN FALSE
    ELSE IF Head(r) = Head(s) THEN IsSubsequence(Tail(r), Tail(s))
    ELSE IsSubsequence(r, Tail(s))

\* C13: a call of filter leaves its input list and the persisted collection
\* as they are, and its result is a subsequence of the input in the input's
\* order.
C13_FilterPure ==
    [][probe'.fn = "filter" =>
          /\ probe'.entries = probe.entries
          /\ probe'.after = probe.entries
          /\ storage' = storage
          /\ IsSubsequence(probe'.result, probe.entries)]_vars

\* A list that is not in timestamp order has been filtered to two of its
\* entries, in their order.
C13_Witness ==
    /\ probe.fn = "filter"
    /\ probe.arg = "week"
    /\ Len(probe.entries) = 3
    /\ Len(probe.result) = 2
    /\ probe.result[1].timestamp < probe.result[2].timestamp
    /\ probe.after = probe.entries
    /\ storage = Stored(probe.entries)

\* The sum of the numbers in s.
RECURSIVE SumOf(_)
SumOf(s) == IF s = <<>> THEN 0 ELSE Head(s) + SumOf(Tail(s))

\* The entries of the list with mood m, by position.
WithMood(entries, m) == {i \in 1..Len(entries) : entries[i].mood = m}

EnumerationPlace(m) ==
    CHOOSE k \in 1..5 : <<"happy", "neutral", "sad", "angry", "sick">>[k] = m

\* C15: the mood-distribution rows are in order of percentage, highest first,
\* and rows of equal percentage are in the order happy, neutral, sad, angry,
\* sick.
C15_MoodRowsOrdered ==
    probe.fn = "moodStats" =>
        \A i, j \in 1..Len(probe.result) :
            i < j =>
                LET a == probe.result[i]
                    b == probe.result[j]
                IN  /\ a.percentage.num * b.percentage.den >= b.percentage.num * a.percentage.den
                    /\ a.percentage.num * b.percentage.den = b.percentage.num * a.percentage.den
                          => EnumerationPlace(a.mood) < EnumerationPlace(b.mood)

\* Three moods with one entry each, entered in the order sick, angry, neutral:
\* the rows are neutral, angry, sick, then happy, sad.
C15_Witness ==
    /\ probe.fn = "moodStats"
    /\ Len(probe.entries) = 3
    /\ [i \in 1..3 |-> probe.entries[i].mood] = <<"sick", "angry", "neutral">>
    /\ [i \in 1..5 |-> probe.result[i].mood] = <<"neutral", "angry", "sick", "happy", "sad">>

\* The entries of the list with condition c and mood m, by position.
InGroupWithMood(entries, c, m) ==
    {i \in 1..Len(entries) : entries[i].weather.condition = c /\ entries[i].mood = m}

\* C16: in every weather group the dominant mood has the highest count of the
\* group, and every mood earlier in the enumeration has a lower count,
\* whatever the order of the entries.
C16_DominantMood ==
    probe.fn = "correlation" =>
        \A i \in 1..Len(probe.result) :
            LET g == probe.result[i]
                top == Cardinality(InGroupWithMood(probe.entries, g.condition, g.dominantMood))
            IN  \A m \in {"happy", "neutral", "sad", "angry", "sick"} :
                    LET k == Cardinality(InGroupWithMood(probe.entries, g.condition, m))
                    IN  /\ k <= top
                        /\ EnumerationPlace(m) < EnumerationPlace(g.dominantMood) => k < top

\* A group in which sick, sad and happy have one entry each, entered in that
\* order, has happy as its dominant mood.
C16_Witness ==
    /\ probe.fn = "correlation"
    /\ Len(probe.entries) = 3
    /\ Len(probe.result) = 1
    /\ [i \in 1..3 |-> probe.entries[i].mood] = <<"sick", "sad", "happy">>
    /\ probe.result[1].dominantMood = "happy"

\* C17: in every weather group dominantPercentage is the integer nearest to
\* 100 * dominantCount / groupSize (halves upwards) and lies between 1 and
\* 100; three Rain entries sad, sad, happy give sad and 67.
C17_DominantPercentage ==
    probe.fn = "correlation" =>
        /\ \A i \in 1..Len(probe.result) :
              LET g == probe.result[i]
                  size == Cardinality({j \in 1..Len(probe.entries) :
                                          probe.entries[j].weather.condition = g.condition})
                  top == Cardinality(InGroupWithMood(probe.entries, g.condition, g.dominantMood))
                  p == g.dominantPercentage
              IN  /\ 2 * p * size - size <= 200 * top
                  /\ 200 * top < 2 * p * size + size
                  /\ 1 <= p
                  /\ p <= 100
        /\ ([i \in 1..Len(probe.entries) |->
                <<probe.entries[i].weather.condition, probe.entries[i].mood>>]
               = << <<"Rain", "sad">>, <<"Rain", "sad">>, <<"Rain", "happy">> >>)
              => /\ Len(probe.result) = 1
                 /\ probe.result[1].dominantMood = "sad"
                 /\ probe.result[1].dominantPercentage = 67

\* The correlation of three Rain entries sad, sad, happy has been computed.
C17_Witness ==
    /\ probe.fn = "correlation"
    /\ probe.entries = <<EntryOf("sad", "Rain"), EntryOf("sad", "Rain"), EntryOf("happy", "Rain")>>
    /\ probe.result[1].dominantPercentage = 67

\* The conditions that occur in the list.
ConditionsOf(entries) == {entries[i].weather.condition : i \in 1..Len(entries)}

\* C18: the correlation has one group per distinct condition string, compared
\* exactly; each group's size is the number of entries of that condition, the
\* sizes sum to the number of entries, and the result is empty exactly for the
\* empty input.
C18_GroupsPartition ==
    probe.fn = "correlation" =>
        LET rows == probe.result
        IN  /\ Len(rows) = Cardinality(ConditionsOf(probe.entries))
            /\ {rows[i].condition : i \in 1..Len(rows)} = ConditionsOf(probe.entries)
            /\ \A i \in 1..Len(rows) :
                  rows[i].totalEntries =
                      Cardinality({j \in 1..Len(probe.entries) :
                                      probe.entries[j].weather.condition = rows[i].condition})
            /\ SumOf([i \in 1..Len(rows) |-> rows[i].totalEntries]) = Len(probe.entries)
            /\ rows = <<>> <=> probe.entries = <<>>

\* Entries of "Rain", "rain" and "Rain" again make two groups, of 2 and 1.
C18_Witness ==
    /\ probe.fn = "correlation"
    /\ Len(probe.entries) = 3
    /\ [i \in 1..3 |-> probe.entries[i].weather.condition] = <<"Rain", "rain", "Rain">>
    /\ Len(probe.result) = 2
    /\ probe.result[1].condition = "Rain"
    /\ probe.result[1].totalEntries = 2
    /\ probe.result[2].condition = "rain"

\* C19: the weather groups are in order of size, largest first: of two
\* adjacent groups the earlier is at least as large as the later.
C19_GroupsOrdered ==
    probe.fn = "correlation" =>
        \A i \in 1..(Len(probe.result) - 1) :
            probe.result[i].totalEntries >= probe.result[i + 1].totalEntries

\* The condition met first has the smaller group and comes second.
C19_Witness ==
    /\ probe.fn = "correlation"
    /\ Len(probe.entries) = 3
    /\ [i \in 1..3 |-> probe.entries[i].weather.condition] = <<"Clear", "Rain", "Rain">>
    /\ Len(probe.result) = 2
    /\ probe.result[1].condition = "Rain"
    /\ probe.result[2].condition = "Clear"

\* The step is a call of export with the empty list.
ExportOfEmpty ==
    /\ probe'.fn = "export"
    /\ probe' # probe
    /\ probe.entries = <<>>

\* The step is a click on Export Data that finds the empty list.
HandleExportOfEmpty ==
    /\ settings'.exportToast # settings.exportToast
    /\ getJournalEntries(storage).value = <<>>

\* C20: export called with the empty list fails for every format, returns no
\* file name and starts no download; the settings page's handler checks for
\* the empty list first and then does not call export.
C20_EmptyExport ==
    [][/\ ExportOfEmpty =>
             /\ probe'.threw
             /\ probe'.result = <<>>
             /\ probe'.downloads = probe.downloads
       /\ HandleExportOfEmpty =>
             /\ settings'.exportToast = "No entries to export"
             /\ settings'.downloads = settings.downloads
             /\ ~settings'.isExporting]_vars

\* Export has been called with the empty list in the json format; and on a
\* page that had exported the persisted entries, after another tab cleared the
\* store, Export Data has found the empty list.
C20_Witness ==
    /\ probe.fn = "export"
    /\ probe.entries = <<>>
    /\ probe.arg = "json"
    /\ probe.threw
    /\ probe.downloads = <<>>
    /\ settings.exportToast = "No entries to export"
    /\ Len(settings.downloads) = 1
    /\ storage = Absent

\* The file of the CSV export that has just returned.
CsvExported == probe.fn = "export" /\ probe.arg = "csv" /\ ~probe.threw

LastCsv == probe.downloads[Len(probe.downloads)].dataStr

\* The lines of a text: its pieces between line breaks.
RECURSIVE SplitLines(_, _)
SplitLines(line, text) ==
    IF text = <<>> THEN <<line>>
    ELSE IF Head(text) = "\n" THEN <<line>> \o SplitLines(<<>>, Tail(text))
    ELSE SplitLines(Append(line, Head(text)), Tail(text))

HeaderLine ==
    <<"Date", ",", "Mood", ",", "Note", ",", "Temperature", ",",
      "Weather Condition", ",", "Location">>

\* The line breaks inside the notes of the entries.
NoteLineBreaks(entries) ==
    SumOf([i \in 1..Len(entries) |->
              Cardinality({k \in 1..Len(entries[i].note) : entries[i].note[k] = "\n"})])

\* C21, as stated: the CSV export of n entries has exactly n + 1 lines, the
\* header row and then one line per entry in input order, whatever the notes
\* hold.
C21_CsvLines ==
    CsvExported =>
        LET lines == SplitLines(<<>>, LastCsv)
        IN  /\ Len(lines) = Len(probe.entries) + 1
            /\ lines[1] = HeaderLine
            /\ \A i \in 1..Len(probe.entries) : lines[i + 1] = csvRow(probe.entries[i])

\* C21, amended: the CSV export of n entries is the header row followed by
\* one row per entry in input order, rows separated by line breaks; it has
\* n + 1 lines plus one for every line break inside a note, so exactly n + 1
\* lines, one per entry, when no note holds a line break.
C21_CsvRows ==
    CsvExported =>
        LET lines == SplitLines(<<>>, LastCsv)
            n == Len(probe.entries)
        IN  /\ LastCsv = HeaderLine \o <<"\n">>
                            \o join([i \in 1..n |-> csvRow(probe.entries[i])], "\n")
            /\ Len(lines) = n + 1 + NoteLineBreaks(probe.entries)
            /\ lines[1] = HeaderLine
            /\ NoteLineBreaks(probe.entries) = 0 =>
                  \A i \in 1..n : lines[i + 1] = csvRow(probe.entries[i])

\* Two entries, the first with a line break in its note, have been exported:
\* four lines.
C21_Witness ==
    /\ CsvExported
    /\ Len(probe.entries) = 2
    /\ probe.entries[1].note = <<"a", "\n", "b">>
    /\ probe.entries[2].note = <<"a", ",", "b">>
    /\ Len(SplitLines(<<>>, LastCsv)) = 4

\* Reading one CSV row: the fields between double quotes, separated by
\* commas, a doubled double quote inside a field standing for one.  mode is
\* "start" before a field, "quoted" inside one, "closed" after its closing
\* quote.
RECURSIVE ParseRow(_, _, _, _)
ParseRow(text, mode, field, fields) ==
    IF text = <<>>
    THEN [ok |-> mode = "closed", fields |-> Append(fields, field)]
    ELSE LET c == Head(text)
         IN  IF mode = "start"
             THEN IF c = "\"" THEN ParseRow(Tail(text), "quoted", <<>>, fields)
                  ELSE [ok |-> FALSE, fields |-> fields]
             ELSE IF mode = "quoted"
             THEN IF c # "\"" THEN ParseRow(Tail(text), "quoted", Append(field, c), fields)
                  ELSE IF Len(text) >= 2 /\ text[2] = "\""
                       THEN ParseRow(Tail(Tail(text)), "quoted", Append(field, c), fields)
                       ELSE ParseRow(Tail(text), "closed", field, fields)
             ELSE IF c = "," THEN ParseRow(Tail(text), "start", <<>>, Append(fields, field))
                  ELSE [ok |-> FALSE, fields |-> fields]

\* The six values of an entry's row.
FieldValues(entry) ==
    << dateChars(entry.date),
       <<entry.mood>>,
       entry.note,
       <<ToString(entry.weather.temp), "°C">>,
       chars(entry.weather.condition),
       chars(IF entry.weather.location = "" THEN "Unknown" ELSE entry.weather.location) >>

\* C22: in every CSV data row the six fields are enclosed in double quotes and
\* every double quote inside a field value is doubled, so the row reads back
\* as exactly six fields, the values of the entry.
C22_CsvRowsParse ==
    CsvExported =>
        /\ LastCsv = HeaderLine \o <<"\n">>
                        \o join([i \in 1..Len(probe.entries) |-> csvRow(probe.entries[i])], "\n")
        /\ \A i \in 1..Len(probe.entries) :
              LET row == ParseRow(csvRow(probe.entries[i]), "start", <<>>, <<>>)
              IN  /\ row.ok
                  /\ Len(row.fields) = 6
                  /\ row.fields = FieldValues(probe.entries[i])

\* A getWeatherData call is in flight.
CurrentInFlight ==
    client.fn = "getWeatherData" /\ client.pc \in {"locating", "fetching", "reading"}

\* A getWeatherData call has returned a record.
CurrentReturned ==
    client.fn = "getWeatherData" /\ client.pc = "returned" /\ ~client.threw

\* The records that the API's well-formed bodies give for a query.
RecordsOf(query) ==
    {weatherOf(data).value : data \in {d \in Bodies(query) : ~weatherOf(d).threw}}

C24_CityFailurePropagates ==
    [][/\ (client.fn = "getWeatherByCity" /\ ~client.failed /\ client'.failed)
            => (client'.pc = "threw" /\ client'.threw /\ client'.result = NullWeather)
       /\ (client'.fn = "getWeatherByCity" /\ client'.pc = "returned")
            => (~client'.failed /\ client'.result \in RecordsOf(client'.query))
       /\ (handleCityWeatherEnd /\ client.pc = "threw")
            => /\ home'.weather = home.weather
               /\ home'.showCityInput = home.showCityInput
               /\ home'.cityInput = home.cityInput
               /\ ~home'.isLoadingWeather
               /\ home'.toast = "City not found"]_vars

\* The lookup of an unknown city has failed: the page still shows the weather
\* it had from the current location, the form is open with the text in it.
C24_Witness ==
    /\ client.fn = "getWeatherByCity"
    /\ client.pc = "threw"
    /\ ~home.isLoadingWeather
    /\ home.toast = "City not found"
    /\ home.showCityInput
    /\ home.cityInput = <<"Qqq">>
    /\ home.weather = [temp |-> 18, condition |-> "Rain", icon |-> "10d",
                       location |-> "Pune"]

C26_NoteLength ==
    \A i \in 1..Len(getJournalEntries(storage).value) :
        StrLen(getJournalEntries(storage).value[i].note) <= maxLength

\* A note of exactly maxLength characters has been saved and the form has
\* been reset.
C26_Witness ==
    /\ Len(getJournalEntries(storage).value) = 1
    /\ StrLen(getJournalEntries(storage).value[1].note) = maxLength
    /\ home.pc = "idle"
    /\ home.note = <<>>
    /\ home.selectedMood = "sad"

\* The step is the write of caller c's save.
SaveCompletes(c) == call[c].pc = "awaiting" /\ call'[c].pc = "returned"

\* s without its k-th element.
Without(s, k) == SubSeq(s, 1, k - 1) \o SubSeq(s, k + 1, Len(s))

\* C27: when a save writes and nothing has written or removed the persisted
\* value since the save read it, and that value is a valid list or absent,
\* then the list has exactly one entry more, the new one; the entries listed
\* before are all listed, in the same order, also those of the new entry's
\* day or timestamp; and the new entry comes before every entry of its own
\* timestamp.
C27_SaveAddsOne ==
    [][\A c \in Callers :
          (SaveCompletes(c) /\ call[c].readVersion = version
                            /\ storage.kind \in {"list", "absent"})
          => LET before == getJournalEntries(storage).value
                 after == getJournalEntries(storage').value
             IN  /\ Len(after) = Len(before) + 1
                 /\ \E k \in 1..Len(after) :
                      /\ after[k] = call[c].newEntry
                      /\ Without(after, k) = before
                      /\ \A j \in 1..(k - 1) :
                           after[j].timestamp > call[c].newEntry.timestamp]_vars

\* Two saves, one after the other, the second by the home page for the first
\* one's day and timestamp: both entries are listed, the second save's first.
C27_Witness ==
    /\ call["home"].pc = "returned"
    /\ call["home"].readVersion = 1
    /\ version = 2
    /\ Len(getJournalEntries(storage).value) = 2
    /\ getJournalEntries(storage).value[1] = call["home"].newEntry
    /\ getJournalEntries(storage).value[2].timestamp = call["home"].newEntry.timestamp
    /\ getJournalEntries(storage).value[2].id # call["home"].newEntry.id

\* C28: when a save writes over a persisted value that is present but not a
\* list of entries, the value becomes the list of the new entry alone, and
\* the save returns: the home page shows "Entry saved!", the trends page goes
\* on with its samples.
C28_UnparsableOverwritten ==
    [][\A c \in Callers :
          (SaveCompletes(c) /\ storage.kind \in {"invalid", "notArray"})
          => /\ call[c].existingEntries = <<>>
             /\ storage' = Stored(<<call[c].newEntry>>)
             /\ c = "home" => (home'.toast = "Entry saved!" /\ home'.pc = "idle")
             /\ c = "trends" => trends'.pc = "looping"]_vars

\* The home page has saved over text that was not JSON.
C28_Witness ==
    /\ call["home"].pc = "returned"
    /\ call["home"].readKind = "invalid"
    /\ call["home"].wroteVersion = 1
    /\ version = 1
    /\ storage = Stored(<<call["home"].newEntry>>)
    /\ home.toast = "Entry saved!"

\* C29: with the home page the only tab, whenever it is loaded and no save is
\* in flight, its entries are the persisted entries, each as many times.
C29_HomeEntriesPersisted ==
    home.pc = "idle" =>
        BagOf(home.entries) = BagOf(getJournalEntries(storage).value)

\* A save has succeeded and a second one has failed.
C29_Witness ==
    /\ home.pc = "idle"
    /\ home.toast = "Error saving entry"
    /\ call["home"].pc = "threw"
    /\ Len(home.entries) = 1
    /\ storage = Stored(home.entries)

\* The step removes the persisted value.
Deleted == version' # version /\ storage' = Absent

\* C30: the persisted value is removed only by handleClearData while the
\* confirmation is showing, and the confirmation is hidden afterwards; the
\* step that shows the confirmation and every step that hides it without
\* removing the value leave the persisted value and the entry count as they
\* are.
C30_ClearNeedsConfirmation ==
    [][/\ Deleted => (settings.showConfirmDelete /\ ~settings'.showConfirmDelete
                        /\ settings'.entryCount = 0)
       /\ (settings.showConfirmDelete # settings'.showConfirmDelete /\ ~Deleted)
            => (storage' = storage /\ settings'.entryCount = settings.entryCount)
       /\ (~settings.showConfirmDelete /\ settings'.showConfirmDelete)
            => settings.entryCount # 0]_vars

\* The home page's entry, counted by the settings page, has been deleted from
\* the confirmation.
C30_Witness ==
    /\ settings.pc = "idle"
    /\ ~settings.showConfirmDelete
    /\ settings.entryCount = 0
    /\ storage = Absent
    /\ version = 2
    /\ ops = MaxOps
    /\ call["home"].pc = "returned"

====
